---- MODULE Spec2Model ----
(***************************************************************************)
(* A model of the search core of lishex-mcts:                              *)
(*   - the bump allocator of src/src/arena.h            (SpecArena),       *)
(*   - the MCTS engine of src/src/mcts.cpp              (SpecMCTS),        *)
(*   - the iterative-deepening alpha-beta engine of                        *)
(*     src/src/search.cpp                               (SpecAB),          *)
(*   - init_search of src/src/search.cpp on any stack   (SpecInitSearch).  *)
(* The specifications share one set of variables; each one keeps the       *)
(* variables of the other components at their initial values.              *)
(***************************************************************************)
EXTENDS Integers, Sequences, FiniteSets, TLC

VARIABLES
    \* the arena
    m_size,      \* Arena::m_size, the cursor (bytes used)
    blocks,      \* history: <<offset, n>> of every successful allocate since the last reset
    last_call,   \* history: the last Arena call, its argument, the cursor before it, its result,
                 \* and the cursor the last reset found if no allocate was called since (else -1)
    \* what both engines work on
    game,        \* which chess position the board holds (see the Position capability)
    build,       \* the build: [DEBUG, NDEBUG], the two macros the source tests
    board,       \* *board: [path, turn, ply, history_h]
    entry_board, \* history: *board when the search was entered
    info,        \* *info: [nodes, seldepth, depth, state, stop]
    out,         \* the lines written to std::cout, in order
    pc,          \* where the search thread stands
    fault,       \* why the process died, when pc = "crashed"
    best_move,   \* best_move of MCTS_Search and of search
    \* the MCTS engine
    root_board,  \* MCTS_Search: const board_t root_board
    tree,        \* the nodes placed in the arena, in allocation order; tree[1] is the root
    node,        \* MCTS_Search: Node* node (0 is nullptr)
    reward,      \* MCTS_Search: double reward, in units of 1 / RSCALE
    iter,        \* history: iterations of the MCTS loop completed
    sim_made,    \* history: moves made by the last simulate
    sim_a,       \* history: the last value of a in the last simulate (NULLMV: no legal move was left)
    torn,        \* history: the nodes whose destructor has run, in the order the runs began
    \* the alpha-beta engine
    frames,      \* the calls of negamax and quiescence in progress, the innermost last
    ret,         \* the value the call that has just returned handed to its caller
    pv_tb,       \* pv_line pv_tb[MAX_DEPTH + 1]
    stack,       \* search: stack_t stack[MAX_DEPTH + 1]
    depth,       \* search: int depth, the iteration
    best_score,  \* search: int best_score
    iter_log     \* history: per iteration of search, [depth, stopped, pv] with pv = pv_tb[0][0] at its end

arenaVars == <<m_size, blocks, last_call>>

commonVars == <<game, build, board, entry_board, info, out, pc, fault, best_move>>

mctsVars == <<root_board, tree, node, reward, iter, sim_made, sim_a, torn>>

abVars == <<frames, ret, pv_tb, stack, depth, best_score, iter_log>>

vars == <<m_size, blocks, last_call, game, build, board, entry_board, info, out, pc, fault,
          best_move, root_board, tree, node, reward, iter, sim_made, sim_a, torn,
          frames, ret, pv_tb, stack, depth, best_score, iter_log>>

-----------------------------------------------------------------------------
(* Arena (src/src/arena.h)                                                 *)

\* alignof(std::max_align_t) on the x86-64 / AArch64 ABIs
ALIGNMENT == 16

\* the arena is built from a number of units; the source reserves
\* reserved_MB << 20 bytes, the model ArenaUnits << ARENA_SHIFT bytes
ArenaUnits == 4
ARENA_SHIFT == 4

\* largest request and largest number of allocate calls between two resets
MaxReq == 18
MaxAllocs == 2

Pow2(k) == IF k = 0 THEN 1 ELSE IF k = 1 THEN 2 ELSE IF k = 2 THEN 4 ELSE IF k = 3 THEN 8 ELSE 16

\* Arena::m_capacity, set by the constructor
m_capacity == ArenaUnits * Pow2(ARENA_SHIFT)

\* Arena::m_bytes, the address malloc returned: non-null and aligned for any type
m_bytes == 2 * ALIGNMENT

NULLPTR == 0

\* std::align(alignment, size, ptr, space) as libstdc++ and libc++ compute it:
\* the aligned pointer and the space left, or a null pointer with ptr and space untouched
StdAlign(alignment, size, ptr, space) ==
    IF space < size
    THEN [ret |-> NULLPTR, ptr |-> ptr, space |-> space]
    ELSE LET aligned == ((ptr + alignment - 1) \div alignment) * alignment
             diff    == aligned - ptr
         IN  IF diff > space - size
             THEN [ret |-> NULLPTR, ptr |-> ptr, space |-> space]
             ELSE [ret |-> aligned, ptr |-> aligned, space |-> space - diff]

\* Arena::has_space(requested) on cursor s
has_space(s, requested) == s + requested < m_capacity

\* a slip of allocate: the padding is not added to the cursor
AllocateNoPadding(s, requested) ==
    LET space == m_capacity - s
        al    == StdAlign(ALIGNMENT, requested, m_bytes + s, space)
    IN  IF al.ret # NULLPTR
        THEN IF al.space < requested
             THEN [ret |-> NULLPTR, size |-> s]
             ELSE [ret |-> al.ptr, size |-> s + requested]
        ELSE [ret |-> NULLPTR, size |-> s]

\* a slip of allocate: the cursor moves over the padding but not over the block
AllocateNoAdvance(s, requested) ==
    LET space == m_capacity - s
        al    == StdAlign(ALIGNMENT, requested, m_bytes + s, space)
    IN  IF al.ret # NULLPTR
        THEN IF al.space < requested
             THEN [ret |-> NULLPTR, size |-> s]
             ELSE [ret |-> al.ptr, size |-> s + (al.ptr - (m_bytes + s))]
        ELSE [ret |-> NULLPTR, size |-> s]

\* Arena::allocate(requested) on cursor s: the pointer returned and the new cursor
allocate(s, requested) ==
    LET space == m_capacity - s
        al    == StdAlign(ALIGNMENT, requested, m_bytes + s, space)
    IN  IF al.ret # NULLPTR
        THEN IF al.space < requested
             THEN [ret |-> NULLPTR, size |-> s]
             ELSE [ret |-> al.ptr, size |-> s + (al.ptr - (m_bytes + s)) + requested]
        ELSE [ret |-> NULLPTR, size |-> s]

\* a reset that leaves the cursor where it is
ResetForgotten == m_size

\* Arena::reset()
reset == 0

Requests == 0 .. MaxReq


-----------------------------------------------------------------------------
(* The Position capability (board.h, movegen, eval: not in src/; modelled  *)
(* from section 6.1 of the specification). A position is the path of moves *)
(* played from the position the search was entered with; three small games *)
(* give the positions their moves, checks and evaluations.                 *)

NULLMV == 0

Moves == {1, 2, 3}

\* the colours; board.turn is one of them
WHITE == 0
BLACK == 1

\* in the game "tree" every line of play ends, by mate, after GameLen plies
GameLen == 5

\* "mate": the side to move is checkmated; "stale": it is stalemated;
\* "forced": the side to move has one legal move and is checkmated by the one reply;
\* "pair": the side to move has two legal moves, the first the better one: it ends the
\* game in a stalemate, the second is answered by a capture that ends it in a stalemate;
\* "tree": a small game with mates, a stalemate, a repetition and illegal
\* pseudolegal moves
Games == {"mate", "stale", "forced", "pair", "tree"}

\* the legal moves of the position at `path`
LegalMoves(g, path) ==
    IF g = "forced" THEN (IF Len(path) < 2 THEN {1} ELSE {})
    ELSE IF g = "pair" THEN (IF path = << >> THEN {1, 2} ELSE IF path = <<2>> THEN {2} ELSE {})
    ELSE IF g # "tree" THEN {}
    ELSE CASE path = << >>      -> {1, 2}
           [] path = <<1>>      -> {1, 2}
           [] path = <<2>>      -> {1}
           [] path = <<1, 1>>   -> {}
           [] path = <<1, 2>>   -> {1}
           [] path = <<2, 1>>   -> {1, 2}
           [] path = <<2, 1, 2>> -> {}
           [] OTHER             -> IF Len(path) < GameLen THEN {1} ELSE {}

\* generate_moves(board, &moves): the pseudolegal moves, never empty
generate_moves(g, b) ==
    IF g # "tree" THEN <<1, 2>>
    ELSE IF b.path = << >> THEN <<1, 2, 3>> ELSE <<1, 2>>

\* generate_noisy(board, &noisy): the pseudolegal captures and promotions
generate_noisy(g, b) ==
    IF g = "tree" /\ Len(b.path) \in {1, 2} THEN <<2>>
    ELSE IF g = "pair" /\ b.path = <<2>> THEN <<2>>
    ELSE << >>

\* is_in_check(board, side)
is_in_check(g, b, side) ==
    /\ side = b.turn
    /\ \/ g = "mate"
       \/ g = "forced" /\ Len(b.path) >= 2
       \/ g = "tree" /\ (b.path = <<1, 1>> \/ Len(b.path) >= GameLen)

\* is_repetition(board)
is_repetition(g, b) == g = "tree" /\ b.path = <<2, 1, 1>>

\* evaluate(board, &eval): centipawns (here in pawns) for the side to move
evaluate(g, b) ==
    IF g = "pair"
    THEN (CASE b.path = <<1>> -> -5 [] b.path = <<2>> -> -7 [] b.path = <<2, 2>> -> 3
            [] OTHER -> 0)
    ELSE IF g # "tree" THEN 0
    ELSE CASE b.path = << >>       -> 0
           [] b.path = <<1>>       -> -1
           [] b.path = <<2>>       -> -3
           [] b.path = <<1, 1>>    -> -9
           [] b.path = <<1, 2>>    -> 2
           [] b.path = <<2, 1>>    -> 1
           [] b.path = <<1, 2, 1>> -> -2
           [] b.path = <<2, 1, 2>> -> -1
           [] OTHER                -> IF Len(b.path) % 2 = 0 THEN 1 ELSE -1

\* make_move(board, move): false, and the board as it was, for a move that leaves
\* the mover's king in check; otherwise the move is played and ply counts it
make_move(g, b, m) ==
    IF m \in LegalMoves(g, b.path)
    THEN [ok |-> TRUE,
          board |-> [b EXCEPT !.path = Append(b.path, m), !.turn = 1 - b.turn,
                              !.ply = b.ply + 1]]
    ELSE [ok |-> FALSE, board |-> b]

\* undo_move(board): takes back the last move made
undo_move(b) ==
    [b EXCEPT !.path = SubSeq(b.path, 1, Len(b.path) - 1), !.turn = 1 - b.turn,
              !.ply = b.ply - 1]

\* the elements of a sequence
Range(q) == {q[i] : i \in 1 .. Len(q)}

\* searchinfo_t::clear(): zeroes the counters, keeps the depth limit, the state and the stop flag
info_clear(i) == [i EXCEPT !.nodes = 0, !.seldepth = 0, !.fail_high = 0, !.fail_high_first = 0]

\* search_stopped(info): the driver asked to stop, or the deadline passed
search_stopped(i) == i.stop

\* the builds: DEBUG guards the diagnostic output, NDEBUG removes the assertions
Builds == [DEBUG : BOOLEAN, NDEBUG : BOOLEAN]

\* an assertion failed (abort) or a null pointer was dereferenced
Crash(why) == pc' = "crashed" /\ fault' = why

-----------------------------------------------------------------------------
(* The MCTS engine (src/src/mcts.cpp)                                      *)

ROLLOUT_BUDGET == 3

\* print_MCTS_info writes a line when info->nodes is a multiple of this
\* (10000 in the source; scaled to the size of the trees of the model)
INFO_PERIOD == 2

\* sizeof(Node), scaled: a multiple of alignof(Node) = 8
NodeSize == 8

\* rewards are held in units of 1 / RSCALE, UCB values in units of 1 / MICRO
RSCALE == 4
MICRO == 1000000

\* the MCTS loop is cut after MaxIter iterations (the stop then has to come)
MaxIter == 4

NULLNODE == 0

\* winning_prob(score), the logistic curve of section 4.5, in units of 1 / RSCALE:
\* strictly between 0 and 1, increasing, 1/2 at 0
winning_prob(score) == IF score < 0 THEN 1 ELSE IF score = 0 THEN 2 ELSE 3

\* UCB_CONST * sqrt(log(N) / (v + 1)) in units of 1 / MICRO, for N = 1 .. 8 and v = 0 .. 8
ExploreTab ==
    << <<0, 0, 0, 0, 0, 0, 0, 0, 0>>,
       <<2247897, 1589504, 1297824, 1123949, 1005290, 917700, 849625, 794752, 749299>>,
       <<2829997, 2001110, 1633900, 1414999, 1265613, 1155341, 1069638, 1000555, 943332>>,
       <<3179007, 2247897, 1835401, 1589504, 1421695, 1297824, 1201552, 1123949, 1059669>>,
       <<3425318, 2422065, 1977608, 1712659, 1531849, 1398380, 1294648, 1211033, 1141773>>,
       <<3614129, 2555575, 2086618, 1807064, 1616288, 1475462, 1366012, 1277787, 1204710>>,
       <<3766389, 2663239, 2174526, 1883194, 1684380, 1537622, 1423561, 1331620, 1255463>>,
       <<3893473, 2753101, 2247897, 1946736, 1741214, 1589504, 1471594, 1376550, 1297824>> >>

\* Node::Node(board, mv, parent_node)
NewNode(g, b, mv, parent_node) ==
    [parent |-> parent_node, a |-> mv, children |-> << >>,
     untried_moves |-> Range(generate_moves(g, b)), total_reward |-> 0, visits |-> 0]

\* Node::is_fully_expanded()
is_fully_expanded(t, n) == t[n].untried_moves = {}

\* Node::is_terminal()
is_terminal(t, n) == Len(t[n].children) = 0 /\ is_fully_expanded(t, n)

\* Node::UCB(exploration_mode) of node c: [nan, v]; log(0) makes the value a NaN
UCB(t, c, exploration_mode) ==
    LET exploit == (t[c].total_reward * MICRO) \div (RSCALE * (t[c].visits + 1))
        N       == t[t[c].parent].visits
    IN  IF ~exploration_mode THEN [nan |-> FALSE, v |-> exploit]
        ELSE IF N = 0 THEN [nan |-> TRUE, v |-> 0]
        ELSE [nan |-> FALSE, v |-> exploit + ExploreTab[N][t[c].visits + 1]]

\* the loop of Node::best_child from child i on: [fault, best]; a null child is dereferenced
RECURSIVE best_child_from(_, _, _, _, _, _)
best_child_from(t, kids, i, exploration_mode, best, best_value) ==
    IF i > Len(kids) THEN [fault |-> "none", best |-> best]
    ELSE IF kids[i] = NULLNODE THEN [fault |-> "nullptr", best |-> NULLNODE]
    ELSE LET ucb == UCB(t, kids[i], exploration_mode)
         IN  IF ~ucb.nan /\ (best = NULLNODE \/ ucb.v > best_value)
             THEN best_child_from(t, kids, i + 1, exploration_mode, kids[i], ucb.v)
             ELSE best_child_from(t, kids, i + 1, exploration_mode, best, best_value)

\* a best_child that takes the last child of greatest UCB: ucb >= best_value
RECURSIVE BestChildLastFrom(_, _, _, _, _, _)
BestChildLastFrom(t, kids, i, exploration_mode, best, best_value) ==
    IF i > Len(kids) THEN [fault |-> "none", best |-> best]
    ELSE IF kids[i] = NULLNODE THEN [fault |-> "nullptr", best |-> NULLNODE]
    ELSE LET ucb == UCB(t, kids[i], exploration_mode)
         IN  IF ~ucb.nan /\ (best = NULLNODE \/ ucb.v >= best_value)
             THEN BestChildLastFrom(t, kids, i + 1, exploration_mode, kids[i], ucb.v)
             ELSE BestChildLastFrom(t, kids, i + 1, exploration_mode, best, best_value)

\* Node::best_child with the test ucb >= best_value
BestChildLast(t, n, exploration_mode) ==
    BestChildLastFrom(t, t[n].children, 1, exploration_mode, NULLNODE, 0)

\* Node::best_child(exploration_mode) of node n: the first child of greatest UCB
\* (every UCB value is above INT_MIN); best = NULLNODE when no child qualified
best_child(t, n, exploration_mode) ==
    best_child_from(t, t[n].children, 1, exploration_mode, NULLNODE, 0)

\* what becomes of a call of best_child whose result is dereferenced at once:
\* the assertion of line 258 aborts, or the null pointer is read
BestChildFault(bc, bld) ==
    IF bc.fault # "none" THEN bc.fault
    ELSE IF bc.best = NULLNODE THEN (IF bld.NDEBUG THEN "nullptr" ELSE "assert")
    ELSE "none"

\* root->best_child(false)->a, every outcome, [fault, a]: without a best child the
\* assertion aborts; where NDEBUG removed it the read through the null pointer is
\* undefined, it faults or it yields whatever lies there
best_child_a(t, bc, bld) ==
    IF BestChildFault(bc, bld) = "none" THEN {[fault |-> "none", a |-> t[bc.best].a]}
    ELSE IF bc.fault = "none" /\ bld.NDEBUG
    THEN {[fault |-> "nullptr", a |-> NULLMV]}
             \cup {[fault |-> "none", a |-> m] : m \in Moves \cup {NULLMV}}
    ELSE {[fault |-> BestChildFault(bc, bld), a |-> NULLMV]}

\* select(root, s) from node n on: [fault, node, board]
RECURSIVE select(_, _, _, _, _)
select(g, bld, t, n, b) ==
    IF is_terminal(t, n) THEN [fault |-> "none", node |-> n, board |-> b]
    ELSE IF is_fully_expanded(t, n)
    THEN LET bc == best_child(t, n, TRUE)
             f  == BestChildFault(bc, bld)
         IN  IF f # "none" THEN [fault |-> f, node |-> NULLNODE, board |-> b]
             ELSE select(g, bld, t, bc.best, make_move(g, b, t[bc.best].a).board)
    ELSE [fault |-> "none", node |-> n, board |-> b]

\* play_legal(s, policy, moves) under the random policy, moves not empty: every
\* way it can end, [a, board, moves]; some illegal moves were erased on the way
play_legal(g, b, moves) ==
    LET legal   == {m \in moves : make_move(g, b, m).ok}
        illegal == moves \ legal
    IN  IF legal = {} THEN {[a |-> NULLMV, board |-> b, moves |-> {}]}
        ELSE {[a |-> m, board |-> make_move(g, b, m).board, moves |-> moves \ J] :
                 m \in legal, J \in SUBSET illegal}

\* the do-while of simulate: every way the rollout can end, [a, board, made]
RECURSIVE rollout_runs(_, _, _, _)
rollout_runs(g, b, budget, made) ==
    UNION { IF o.a # NULLMV /\ budget > 0
            THEN rollout_runs(g, o.board, budget - 1, made + 1)
            ELSE {[a |-> o.a, board |-> o.board,
                   made |-> IF o.a # NULLMV THEN made + 1 ELSE made]} :
            o \in play_legal(g, b, Range(generate_moves(g, b))) }

\* a reward that counts every rollout without a legal move left as a loss of the starter
RolloutRewardMatedAlways(g, color, run) ==
    IF run.a = NULLMV
    THEN IF is_in_check(g, run.board, color) \/ is_in_check(g, run.board, 1 - color)
         THEN -RSCALE ELSE 0
    ELSE LET static_eval_score ==
                 evaluate(g, run.board) * (IF run.board.turn = color THEN 1 ELSE -1)
         IN  2 * winning_prob(static_eval_score) - RSCALE

\* a reward that counts a mate twice as much as a won or lost evaluation can count
RolloutRewardDoubleMate(g, color, run) ==
    IF run.a = NULLMV
    THEN IF is_in_check(g, run.board, color) THEN -2 * RSCALE
         ELSE IF is_in_check(g, run.board, 1 - color) THEN 2 * RSCALE
         ELSE 0
    ELSE LET static_eval_score ==
                 evaluate(g, run.board) * (IF run.board.turn = color THEN 1 ELSE -1)
         IN  2 * winning_prob(static_eval_score) - RSCALE

\* the reward simulate computes at the end of the rollout `run` started by `color`
rollout_reward(g, color, run) ==
    IF run.a = NULLMV
    THEN IF is_in_check(g, run.board, color) THEN -RSCALE
         ELSE IF is_in_check(g, run.board, 1 - color) THEN RSCALE
         ELSE 0
    ELSE LET static_eval_score ==
                 evaluate(g, run.board) * (IF run.board.turn = color THEN 1 ELSE -1)
         IN  2 * winning_prob(static_eval_score) - RSCALE

\* a simulate that returns the reward of the side that is not to move in s
SimulateForOpponent(g, b) ==
    {[reward |-> rollout_reward(g, 1 - b.turn, run), board |-> run.board, made |-> run.made,
      a |-> run.a] :
        run \in rollout_runs(g, b, ROLLOUT_BUDGET, 0)}

\* simulate(s): every result, [reward, board, made, a]
simulate(g, b) ==
    {[reward |-> rollout_reward(g, b.turn, run), board |-> run.board, made |-> run.made,
      a |-> run.a] :
        run \in rollout_runs(g, b, ROLLOUT_BUDGET, 0)}

\* an update that adds the reward and does not count the visit
UpdateRewardOnly(t, n, r) ==
    [t EXCEPT ![n].total_reward = @ + r]

\* Node::update(reward) on node n
update(t, n, r) ==
    [t EXCEPT ![n].visits = @ + 1, ![n].total_reward = @ + r]

\* a backprop that flips the reward once, not at every node
RECURSIVE BackpropOneFlip(_, _, _)
BackpropOneFlip(t, n, r) ==
    IF n = NULLNODE THEN t
    ELSE BackpropOneFlip(update(t, n, -r), t[n].parent, r)

\* a backprop that stops below the root: the loop runs while curr->parent is not null
RECURSIVE BackpropBelowRoot(_, _, _)
BackpropBelowRoot(t, n, r) ==
    IF n = NULLNODE THEN t
    ELSE IF t[n].parent = NULLNODE THEN t
    ELSE BackpropBelowRoot(update(t, n, -r), t[n].parent, -r)

\* backprop(reward, node, root_color, color): the loop from node n up to the root
RECURSIVE backprop(_, _, _)
backprop(t, n, r) ==
    IF n = NULLNODE THEN t
    ELSE backprop(update(t, n, -r), t[n].parent, -r)

\* an insert_child that stores the child in place of the children the node had
InsertChildInPlace(g, t, n, move, b, size) ==
    LET memory == allocate(size, NodeSize)
        child  == IF memory.ret # NULLPTR THEN Len(t) + 1 ELSE NULLNODE
        t1     == [t EXCEPT ![n].untried_moves = @ \ {move},
                            ![n].children = <<child>>]
    IN  [tree  |-> IF child # NULLNODE THEN Append(t1, NewNode(g, b, move, n)) ELSE t1,
         child |-> child,
         size  |-> memory.size]

\* Node::insert_child(move, board) on node n, the board already holding the move:
\* [tree, child, size]; the child is null when the arena refused the block
insert_child(g, t, n, move, b, size) ==
    LET memory == allocate(size, NodeSize)
        child  == IF memory.ret # NULLPTR THEN Len(t) + 1 ELSE NULLNODE
        t1     == [t EXCEPT ![n].untried_moves = @ \ {move},
                            ![n].children = Append(@, child)]
    IN  [tree  |-> IF child # NULLNODE THEN Append(t1, NewNode(g, b, move, n)) ELSE t1,
         child |-> child,
         size  |-> memory.size]

\* Node::~Node() reaches a null child somewhere below the root
null_child(t) == \E n \in 1 .. Len(t) : NULLNODE \in Range(t[n].children)

\* the root pointer of MCTS_Search
root == IF Len(tree) = 0 THEN NULLNODE ELSE 1

\* MCTS_Search, lines 503-520: the set-up
MCTS_Setup ==
    /\ pc = "entry"
    /\ UNCHANGED abVars
    /\ info.state = "SEARCHING"
    /\ LET b0     == [board EXCEPT !.ply = 0]
           memory == allocate(reset, NodeSize)
       IN  /\ info' = info_clear(info)
           /\ board' = b0
           /\ root_board' = b0
           /\ m_size' = memory.size
           /\ tree' = IF memory.ret # NULLPTR THEN <<NewNode(game, b0, NULLMV, NULLNODE)>>
                      ELSE << >>
    /\ pc' = "loop"
    /\ UNCHANGED <<blocks, last_call, game, build, entry_board, out, fault, best_move,
                   node, reward, iter, sim_made, sim_a, torn>>

\* line 525: the loop condition
MCTS_LoopTest ==
    /\ pc = "loop"
    /\ UNCHANGED abVars
    /\ IF search_stopped(info) THEN pc' = "report"
       ELSE iter < MaxIter /\ pc' = "select"
    /\ UNCHANGED <<arenaVars, game, build, board, entry_board, info, out, fault, best_move,
                   mctsVars>>

\* line 527: node = select(root, board)
MCTS_Select ==
    /\ pc = "select"
    /\ UNCHANGED abVars
    /\ IF root = NULLNODE
       THEN /\ Crash(IF build.NDEBUG THEN "nullptr" ELSE "assert")
            /\ UNCHANGED <<node, board>>
       ELSE LET r == select(game, build, tree, root, board)
            IN  IF r.fault # "none"
                THEN Crash(r.fault) /\ UNCHANGED <<node, board>>
                ELSE /\ node' = r.node
                     /\ board' = r.board
                     /\ pc' = "expand"
                     /\ UNCHANGED fault
    /\ UNCHANGED <<arenaVars, game, build, entry_board, info, out, best_move,
                   root_board, tree, reward, iter, sim_made, sim_a, torn>>

\* an expand that does not ask the arena whether a node fits
MCTS_ExpandUnchecked ==
    /\ pc = "expand"
    /\ UNCHANGED abVars
    /\ IF is_terminal(tree, node) \/ is_fully_expanded(tree, node)
       THEN UNCHANGED <<m_size, board, info, tree, node>>
       ELSE \E o \in play_legal(game, board, tree[node].untried_moves) :
              LET t1 == [tree EXCEPT ![node].untried_moves = o.moves]
              IN  IF o.a # NULLMV
                  THEN LET ins == insert_child(game, t1, node, o.a, o.board, m_size)
                       IN  /\ info' = [info EXCEPT !.nodes = @ + 1,
                                          !.seldepth = IF o.board.ply > @ THEN o.board.ply ELSE @]
                           /\ board' = o.board
                           /\ tree' = ins.tree
                           /\ node' = ins.child
                           /\ m_size' = ins.size
                  ELSE /\ tree' = t1
                       /\ UNCHANGED <<m_size, board, info, node>>
    /\ pc' = "simulate"
    /\ UNCHANGED <<blocks, last_call, game, build, entry_board, out, fault, best_move,
                   root_board, reward, iter, sim_made, sim_a, torn>>

\* line 530: node = expand(node, board, info)
MCTS_Expand ==
    /\ pc = "expand"
    /\ UNCHANGED abVars
    /\ IF is_terminal(tree, node) \/ is_fully_expanded(tree, node)
       THEN UNCHANGED <<m_size, board, info, tree, node>>
       ELSE IF ~has_space(m_size, NodeSize)
       THEN UNCHANGED <<m_size, board, info, tree, node>>
       ELSE \E o \in play_legal(game, board, tree[node].untried_moves) :
              LET t1 == [tree EXCEPT ![node].untried_moves = o.moves]
              IN  IF o.a # NULLMV
                  THEN LET ins == insert_child(game, t1, node, o.a, o.board, m_size)
                       IN  /\ info' = [info EXCEPT !.nodes = @ + 1,
                                          !.seldepth = IF o.board.ply > @ THEN o.board.ply ELSE @]
                           /\ board' = o.board
                           /\ tree' = ins.tree
                           /\ node' = ins.child
                           /\ m_size' = ins.size
                  ELSE /\ tree' = t1
                       /\ UNCHANGED <<m_size, board, info, node>>
    /\ pc' = "simulate"
    /\ UNCHANGED <<blocks, last_call, game, build, entry_board, out, fault, best_move,
                   root_board, reward, iter, sim_made, sim_a, torn>>

\* lines 533-534: reward = simulate(board)
MCTS_Simulate ==
    /\ pc = "simulate"
    /\ UNCHANGED abVars
    /\ \E r \in simulate(game, board) :
          /\ reward' = r.reward
          /\ board' = r.board
          /\ sim_made' = r.made
          /\ sim_a' = r.a
    /\ pc' = "backprop"
    /\ UNCHANGED <<arenaVars, game, build, entry_board, info, out, fault, best_move,
                   root_board, tree, node, iter, torn>>

\* line 537: backprop(reward, node, root_color, color)
MCTS_Backprop ==
    /\ pc = "backprop"
    /\ UNCHANGED abVars
    /\ IF node = NULLNODE /\ ~build.NDEBUG
       THEN Crash("assert") /\ UNCHANGED tree
       ELSE /\ tree' = backprop(tree, node, reward)
            /\ pc' = "print"
            /\ UNCHANGED fault
    /\ UNCHANGED <<arenaVars, game, build, board, entry_board, info, out, best_move,
                   root_board, node, reward, iter, sim_made, sim_a, torn>>

\* (ucb + 1) / 2.0 for ucb = UCB(false) of node c, the argument of centipawn_from_prob,
\* as the fraction num / den
prob_from_ucb(t, c) ==
    [num |-> t[c].total_reward + RSCALE * (t[c].visits + 1),
     den |-> 2 * RSCALE * (t[c].visits + 1)]

\* what (ucb + 1) / 2.0 can be when ucb was read through a null pointer: any double,
\* here one inside (0, 1) and one outside
IndeterminateProbs == {[num |-> 1, den |-> 2], [num |-> 3, den |-> 2]}

\* the argument of centipawn_from_prob in print_MCTS_info, every outcome
best_child_prob(t, bc, bld) ==
    IF BestChildFault(bc, bld) = "none" THEN {prob_from_ucb(t, bc.best)}
    ELSE IndeterminateProbs

\* line 540: print_MCTS_info(root, info)
MCTS_PrintInfo ==
    /\ pc = "print"
    /\ UNCHANGED abVars
    /\ IF info.nodes % INFO_PERIOD # 0
       THEN pc' = "restore" /\ UNCHANGED <<out, fault>>
       ELSE \E o \in best_child_a(tree, best_child(tree, root, FALSE), build),
                p \in best_child_prob(tree, best_child(tree, root, FALSE), build) :
                IF o.fault # "none"
                THEN Crash(o.fault) /\ UNCHANGED out
                ELSE /\ out' = Append(out, [kind |-> "info", move |-> o.a, p |-> p,
                                            from |-> best_child(tree, root, FALSE).best])
                     /\ pc' = "restore"
                     /\ UNCHANGED fault
    /\ UNCHANGED <<arenaVars, game, build, board, entry_board, info, best_move, mctsVars>>

\* a slip of the loop: the board is not put back at the end of an iteration
MCTS_RestoreSkipped ==
    /\ pc = "restore"
    /\ UNCHANGED abVars
    /\ iter' = iter + 1
    /\ pc' = "loop"
    /\ UNCHANGED <<arenaVars, game, build, board, entry_board, info, out, fault, best_move,
                   root_board, tree, node, reward, sim_made, sim_a, torn>>

\* line 543: *board = root_board, the end of an iteration
MCTS_Restore ==
    /\ pc = "restore"
    /\ UNCHANGED abVars
    /\ board' = root_board
    /\ iter' = iter + 1
    /\ pc' = "loop"
    /\ UNCHANGED <<arenaVars, game, build, entry_board, info, out, fault, best_move,
                   root_board, tree, node, reward, sim_made, sim_a, torn>>

\* the four "info string" lines of the DEBUG build, lines 554-578
debug_lines == [i \in 1 .. 4 |-> [kind |-> "info string", move |-> NULLMV]]

\* lines 550-578: the best move is picked and reported
MCTS_Report ==
    /\ pc = "report"
    /\ UNCHANGED abVars
    /\ IF root = NULLNODE
       THEN Crash("nullptr") /\ UNCHANGED <<best_move, out>>
       ELSE \E o \in best_child_a(tree, best_child(tree, root, FALSE), build) :
                IF o.fault # "none"
                THEN Crash(o.fault) /\ UNCHANGED <<best_move, out>>
                ELSE /\ best_move' = o.a
                     /\ out' = Append(out, [kind |-> "bestmove", move |-> o.a])
                                 \o (IF build.DEBUG THEN debug_lines ELSE << >>)
                     /\ pc' = "cleanup"
                     /\ UNCHANGED fault
    /\ UNCHANGED <<arenaVars, game, build, board, entry_board, info, mctsVars>>

\* a destructor that does not go down to the children
DestroyNodeOnly(t, n) == <<n>>

\* Node::~Node() on node n, no child null: the nodes whose destructor runs, in the
\* order the runs begin; every child is destroyed from the loop of its parent
RECURSIVE destroy(_, _)
RECURSIVE destroy_children(_, _, _)
destroy(t, n) == <<n>> \o destroy_children(t, t[n].children, 1)

\* the loop of ~Node() from child i on
destroy_children(t, kids, i) ==
    IF i > Len(kids) THEN << >>
    ELSE destroy(t, kids[i]) \o destroy_children(t, kids, i + 1)

\* line 581: root->~Node(), the tree is torn down
MCTS_Cleanup ==
    /\ pc = "cleanup"
    /\ UNCHANGED abVars
    /\ IF null_child(tree)
       THEN Crash("nullptr") /\ UNCHANGED <<tree, torn>>
       ELSE /\ tree' = << >>
            /\ torn' = destroy(tree, root)
            /\ pc' = "arena_reset"
            /\ UNCHANGED fault
    /\ UNCHANGED <<arenaVars, game, build, board, entry_board, info, out, best_move,
                   root_board, node, reward, iter, sim_made, sim_a>>

\* line 582: arena.reset()
MCTS_ArenaReset ==
    /\ pc = "arena_reset"
    /\ UNCHANGED abVars
    /\ m_size' = reset
    /\ pc' = "set_state"
    /\ UNCHANGED <<blocks, last_call, game, build, board, entry_board, info, out, fault,
                   best_move, mctsVars>>

\* lines 583-585: info->state = ENGINE_STOPPED, and MCTS_Search returns
MCTS_SetState ==
    /\ pc = "set_state"
    /\ UNCHANGED abVars
    /\ info' = [info EXCEPT !.state = "STOPPED"]
    /\ pc' = "done"
    /\ UNCHANGED <<arenaVars, game, build, board, entry_board, out, fault, best_move,
                   mctsVars>>

\* the driver thread, or the clock: search_stopped(info) becomes true
RequestStop ==
    /\ pc \notin {"done", "crashed"}
    /\ ~info.stop
    /\ info' = [info EXCEPT !.stop = TRUE]
    /\ UNCHANGED <<arenaVars, game, build, board, entry_board, out, pc, fault, best_move,
                   mctsVars, abVars>>

-----------------------------------------------------------------------------
(* The alpha-beta engine (src/src/search.cpp)                              *)

\* MAX_DEPTH (64 in the engine), the number of plies a search may reach
MAX_DEPTH == 4

\* the greatest depth limit the driver sets in info->depth
MaxDepthLimit == 4

\* +oo, the mate score
oo == 30000

\* board->fifty_move, the plies since the last capture or pawn move
fifty_move(g, b) == Len(b.path)

\* the quotient a / b of two ints in C++ (b > 0): rounded towards zero
cdiv(a, b) == IF a >= 0 THEN a \div b ELSE -((-a) \div b)

\* no call has just returned; beside the value v a return carries, as history, the ply
\* of the call, who made the call ("negamax" if search or negamax did, also for the
\* quiescence call negamax ends in, "quiescence" if quiescence did) and its line
NoRet == [has |-> FALSE, v |-> 0, ply |-> 0, called |-> "none", line |-> << >>]

\* pv_line::clear()
pv_clear == [moves |-> [i \in 0 .. MAX_DEPTH - 1 |-> NULLMV], size |-> 0]

\* a movcpy that copies nothing
MovcpyNothing(tgt, ti, src, si, n) == [moves |-> tgt, oob |-> FALSE]

\* a movcpy that reads the source row one move before p_src
RECURSIVE MovcpyFromBefore(_, _, _, _, _)
MovcpyFromBefore(tgt, ti, src, si, n) ==
    IF n = 0 THEN [moves |-> tgt, oob |-> FALSE]
    ELSE IF ti >= MAX_DEPTH \/ si >= MAX_DEPTH THEN [moves |-> tgt, oob |-> TRUE]
    ELSE IF src[si - 1] = NULLMV THEN [moves |-> [tgt EXCEPT ![ti] = NULLMV], oob |-> FALSE]
    ELSE MovcpyFromBefore([tgt EXCEPT ![ti] = src[si - 1]], ti + 1, src, si + 1, n - 1)

\* a movcpy that copies n moves whether or not it meets the null move
RECURSIVE MovcpyPastNull(_, _, _, _, _)
MovcpyPastNull(tgt, ti, src, si, n) ==
    IF n = 0 THEN [moves |-> tgt, oob |-> FALSE]
    ELSE IF ti >= MAX_DEPTH \/ si >= MAX_DEPTH THEN [moves |-> tgt, oob |-> TRUE]
    ELSE MovcpyPastNull([tgt EXCEPT ![ti] = src[si]], ti + 1, src, si + 1, n - 1)

\* movcpy(p_tgt, p_src, n) with p_tgt = &tgt[ti] and p_src = &src[si]: [moves, oob];
\* oob when the copy leaves the MAX_DEPTH moves of a row
RECURSIVE movcpy(_, _, _, _, _)
movcpy(tgt, ti, src, si, n) ==
    IF n = 0 THEN [moves |-> tgt, oob |-> FALSE]
    ELSE IF ti >= MAX_DEPTH \/ si >= MAX_DEPTH THEN [moves |-> tgt, oob |-> TRUE]
    ELSE IF src[si] = NULLMV THEN [moves |-> [tgt EXCEPT ![ti] = NULLMV], oob |-> FALSE]
    ELSE movcpy([tgt EXCEPT ![ti] = src[si]], ti + 1, src, si + 1, n - 1)

\* score_moves and next_best (order.h): the moves in the order they are searched
ordered(moves) == moves

\* the moves of the list from the first legal one on: next_best until make_move succeeds
RECURSIVE from_first_legal(_, _, _)
from_first_legal(g, b, moves) ==
    IF moves = << >> \/ make_move(g, b, Head(moves)).ok THEN moves
    ELSE from_first_legal(g, b, Tail(moves))

\* a call of negamax with the two bounds in each other's place
NegamaxCallSwapped(alpha, beta, d) ==
    [fn |-> "negamax", at |-> "entry", alpha |-> beta, beta |-> alpha, depth |-> d,
     moves |-> << >>, move |-> NULLMV, moves_searched |-> 0, bestscore |-> -oo,
     bestmove |-> NULLMV, called |-> "negamax", line |-> << >>]

\* a call negamax(alpha, beta, depth, ...) about to run; beside the parameters and the
\* locals a frame carries, as history, who made the call and the line of the call: the
\* last move that raised alpha without reaching beta, followed by the line its call returned
negamax_call(alpha, beta, d) ==
    [fn |-> "negamax", at |-> "entry", alpha |-> alpha, beta |-> beta, depth |-> d,
     moves |-> << >>, move |-> NULLMV, moves_searched |-> 0, bestscore |-> -oo,
     bestmove |-> NULLMV, called |-> "negamax", line |-> << >>]

\* a call of quiescence with a window of one point below beta
QuiescenceCallNullWindow(alpha, beta) ==
    [fn |-> "quiescence", at |-> "entry", alpha |-> beta - 1, beta |-> beta, depth |-> 0,
     moves |-> << >>, move |-> NULLMV, moves_searched |-> 0, bestscore |-> -oo,
     bestmove |-> NULLMV, called |-> "quiescence", line |-> << >>]

\* a call quiescence(alpha, beta, ...) about to run
quiescence_call(alpha, beta) ==
    [fn |-> "quiescence", at |-> "entry", alpha |-> alpha, beta |-> beta, depth |-> 0,
     moves |-> << >>, move |-> NULLMV, moves_searched |-> 0, bestscore |-> -oo,
     bestmove |-> NULLMV, called |-> "quiescence", line |-> << >>]

Top == frames[Len(frames)]

Callers == SubSeq(frames, 1, Len(frames) - 1)

\* the innermost call returns v to its caller
Return(v) ==
    /\ frames' = Callers
    /\ ret' = [has |-> TRUE, v |-> v, ply |-> Len(frames) - 1, called |-> Top.called,
               line |-> Top.line]

\* the innermost call goes on as the frame f
Goto(f) == frames' = Append(Callers, f) /\ ret' = NoRet

\* an init_search that sets the ply and leaves the history tables as they are
init_search_unscaled(b) == [b EXCEPT !.ply = 0]

\* init_search(board, info, s), lines 222-251
init_search_board(b) ==
    [b EXCEPT !.ply = 0, !.history_h = [i \in DOMAIN b.history_h |-> cdiv(b.history_h[i], 16)]]

\* what search and the calls below it leave alone
ABFrame == UNCHANGED <<arenaVars, mctsVars, game, build, entry_board>>

\* negamax, lines 89-137: from the entry of the call to the move loop
NegamaxEntry ==
    /\ pc = "search" /\ frames # << >> /\ ~ret.has
    /\ Top.fn = "negamax" /\ Top.at = "entry"
    /\ ABFrame
    /\ UNCHANGED <<board, out, best_move, depth, best_score, iter_log>>
    /\ LET f   == Top
           ply == board.ply
       IN  IF ~build.NDEBUG /\ (~(f.alpha < f.beta) \/ f.depth < 0)
           THEN Crash("assert") /\ UNCHANGED <<frames, ret, pv_tb, stack, info>>
           ELSE IF ply + 1 > MAX_DEPTH
           THEN Crash("oob") /\ UNCHANGED <<frames, ret, pv_tb, stack, info>>
           ELSE /\ pv_tb' = [pv_tb EXCEPT ![ply].size = ply]
                /\ UNCHANGED <<pc, fault>>
                /\ IF f.depth <= 0
                   THEN /\ Goto([quiescence_call(f.alpha, f.beta) EXCEPT !.called = f.called])
                        /\ UNCHANGED <<info, stack>>
                   ELSE /\ info' = [info EXCEPT !.nodes = @ + 1]
                        /\ IF ply # 0 /\ (is_repetition(game, board) \/ fifty_move(game, board) >= 100)
                           THEN Return(-2 + ((info.nodes + 1) % 4)) /\ UNCHANGED stack
                           ELSE IF ply >= MAX_DEPTH - 1
                           THEN Return(evaluate(game, board)) /\ UNCHANGED stack
                           ELSE /\ stack' = [stack EXCEPT ![ply].score = evaluate(game, board)]
                                /\ Goto([f EXCEPT !.at = "loop",
                                            !.moves = ordered(generate_moves(game, board)),
                                            !.moves_searched = 0, !.bestscore = -oo,
                                            !.bestmove = NULLMV])

\* a negamax whose mate score does not count the ply: -oo for every mate
NegamaxNextMateWithoutPly ==
    /\ pc = "search" /\ frames # << >> /\ ~ret.has
    /\ Top.fn = "negamax" /\ Top.at = "loop"
    /\ ABFrame
    /\ UNCHANGED <<info, out, pc, fault, best_move, pv_tb, stack, depth, best_score, iter_log>>
    /\ LET f    == Top
           rest == from_first_legal(game, board, f.moves)
       IN  IF rest = << >>
           THEN /\ UNCHANGED board
                /\ IF f.moves_searched = 0
                   THEN Return(IF is_in_check(game, board, board.turn) THEN -oo ELSE 0)
                   ELSE Return(f.alpha)
           ELSE /\ board' = make_move(game, board, Head(rest)).board
                /\ frames' = Append(Append(Callers, [f EXCEPT !.at = "wait", !.move = Head(rest),
                                                              !.moves = Tail(rest)]),
                                    negamax_call(-f.beta, -f.alpha, f.depth - 1))
                /\ ret' = NoRet

\* negamax, lines 143-149 and 188-197: the next legal move is made and searched,
\* or the loop ends and the call returns
NegamaxNext ==
    /\ pc = "search" /\ frames # << >> /\ ~ret.has
    /\ Top.fn = "negamax" /\ Top.at = "loop"
    /\ ABFrame
    /\ UNCHANGED <<info, out, pc, fault, best_move, pv_tb, stack, depth, best_score, iter_log>>
    /\ LET f    == Top
           rest == from_first_legal(game, board, f.moves)
       IN  IF rest = << >>
           THEN /\ UNCHANGED board
                /\ IF f.moves_searched = 0
                   THEN Return(IF is_in_check(game, board, board.turn) THEN -oo + board.ply ELSE 0)
                   ELSE Return(f.alpha)
           ELSE /\ board' = make_move(game, board, Head(rest)).board
                /\ frames' = Append(Append(Callers, [f EXCEPT !.at = "wait", !.move = Head(rest),
                                                              !.moves = Tail(rest)]),
                                    negamax_call(-f.beta, -f.alpha, f.depth - 1))
                /\ ret' = NoRet

\* a negamax that looks at the stop before it takes the move back
NegamaxChildReturnedStopFirst ==
    /\ pc = "search" /\ frames # << >> /\ ret.has
    /\ Top.fn = "negamax" /\ Top.at = "wait"
    /\ ABFrame
    /\ UNCHANGED <<out, best_move, stack, depth, best_score, iter_log>>
    /\ board' = IF search_stopped(info) THEN board ELSE undo_move(board)
    /\ LET f     == Top
           score == -ret.v
           ply   == board.ply - 1
           f1    == [f EXCEPT !.moves_searched = @ + 1, !.at = "loop"]
       IN  IF search_stopped(info)
           THEN Return(0) /\ UNCHANGED <<info, pc, fault, pv_tb>>
           ELSE IF score > f.bestscore
           THEN LET f2 == [f1 EXCEPT !.bestscore = score, !.bestmove = f.move]
                IN  IF score > f.alpha
                    THEN IF score >= f.beta
                         THEN /\ info' = [info EXCEPT !.fail_high = @ + 1,
                                            !.fail_high_first =
                                                IF f1.moves_searched = 1 THEN @ + 1 ELSE @]
                              /\ Return(f.beta)
                              /\ UNCHANGED <<pc, fault, pv_tb>>
                         ELSE LET cp == movcpy([pv_tb[ply].moves EXCEPT ![ply] = f.move], ply + 1,
                                               pv_tb[ply + 1].moves, ply + 1, pv_tb[ply + 1].size)
                              IN  IF cp.oob
                                  THEN Crash("oob") /\ UNCHANGED <<info, frames, ret, pv_tb>>
                                  ELSE /\ pv_tb' = [pv_tb EXCEPT ![ply] =
                                                      [moves |-> cp.moves, size |-> pv_tb[ply + 1].size]]
                                       /\ Goto([f2 EXCEPT !.alpha = score,
                                                           !.line = <<f.move>> \o ret.line])
                                       /\ UNCHANGED <<info, pc, fault>>
                    ELSE Goto(f2) /\ UNCHANGED <<info, pc, fault, pv_tb>>
           ELSE Goto(f1) /\ UNCHANGED <<info, pc, fault, pv_tb>>

\* negamax, lines 149-184: the call on the child has returned
NegamaxChildReturned ==
    /\ pc = "search" /\ frames # << >> /\ ret.has
    /\ Top.fn = "negamax" /\ Top.at = "wait"
    /\ ABFrame
    /\ UNCHANGED <<out, best_move, stack, depth, best_score, iter_log>>
    /\ board' = undo_move(board)
    /\ LET f     == Top
           score == -ret.v
           ply   == board.ply - 1
           f1    == [f EXCEPT !.moves_searched = @ + 1, !.at = "loop"]
       IN  IF search_stopped(info)
           THEN Return(0) /\ UNCHANGED <<info, pc, fault, pv_tb>>
           ELSE IF score > f.bestscore
           THEN LET f2 == [f1 EXCEPT !.bestscore = score, !.bestmove = f.move]
                IN  IF score > f.alpha
                    THEN IF score >= f.beta
                         THEN /\ info' = [info EXCEPT !.fail_high = @ + 1,
                                            !.fail_high_first =
                                                IF f1.moves_searched = 1 THEN @ + 1 ELSE @]
                              /\ Return(f.beta)
                              /\ UNCHANGED <<pc, fault, pv_tb>>
                         ELSE LET cp == movcpy([pv_tb[ply].moves EXCEPT ![ply] = f.move], ply + 1,
                                               pv_tb[ply + 1].moves, ply + 1, pv_tb[ply + 1].size)
                              IN  IF cp.oob
                                  THEN Crash("oob") /\ UNCHANGED <<info, frames, ret, pv_tb>>
                                  ELSE /\ pv_tb' = [pv_tb EXCEPT ![ply] =
                                                      [moves |-> cp.moves, size |-> pv_tb[ply + 1].size]]
                                       /\ Goto([f2 EXCEPT !.alpha = score,
                                                           !.line = <<f.move>> \o ret.line])
                                       /\ UNCHANGED <<info, pc, fault>>
                    ELSE Goto(f2) /\ UNCHANGED <<info, pc, fault, pv_tb>>
           ELSE Goto(f1) /\ UNCHANGED <<info, pc, fault, pv_tb>>

\* quiescence, lines 266-300: from the entry of the call to the move loop
QuiescenceEntry ==
    /\ pc = "search" /\ frames # << >> /\ ~ret.has
    /\ Top.fn = "quiescence" /\ Top.at = "entry"
    /\ ABFrame
    /\ UNCHANGED <<board, out, best_move, pv_tb, depth, best_score, iter_log>>
    /\ LET f     == Top
           ply   == board.ply
           score == evaluate(game, board)
       IN  IF ~build.NDEBUG /\ ~(f.alpha < f.beta)
           THEN Crash("assert") /\ UNCHANGED <<frames, ret, stack, info>>
           ELSE /\ info' = [info EXCEPT !.nodes = @ + 1,
                                        !.seldepth = IF ply > @ THEN ply - 1 ELSE @]
                /\ stack' = [stack EXCEPT ![ply].score = score]
                /\ UNCHANGED <<pc, fault>>
                /\ IF ply >= MAX_DEPTH - 1 THEN Return(score)
                   ELSE IF score >= f.beta THEN Return(f.beta)
                   ELSE Goto([f EXCEPT !.at = "loop",
                                       !.alpha = IF score > @ THEN score ELSE @,
                                       !.moves = ordered(generate_noisy(game, board))])

\* quiescence, lines 308-317 and 340: the next legal capture is made and searched,
\* or the loop ends and the call returns alpha
QuiescenceNext ==
    /\ pc = "search" /\ frames # << >> /\ ~ret.has
    /\ Top.fn = "quiescence" /\ Top.at = "loop"
    /\ ABFrame
    /\ UNCHANGED <<info, out, pc, fault, best_move, pv_tb, stack, depth, best_score, iter_log>>
    /\ LET f    == Top
           rest == from_first_legal(game, board, f.moves)
       IN  IF rest = << >>
           THEN UNCHANGED board /\ Return(f.alpha)
           ELSE /\ board' = make_move(game, board, Head(rest)).board
                /\ frames' = Append(Append(Callers, [f EXCEPT !.at = "wait", !.move = Head(rest),
                                                              !.moves = Tail(rest),
                                                              !.moves_searched = @ + 1]),
                                    quiescence_call(-f.beta, -f.alpha))
                /\ ret' = NoRet

\* quiescence, lines 317-337: the call on the child has returned
QuiescenceChildReturned ==
    /\ pc = "search" /\ frames # << >> /\ ret.has
    /\ Top.fn = "quiescence" /\ Top.at = "wait"
    /\ ABFrame
    /\ UNCHANGED <<out, pc, fault, best_move, pv_tb, stack, depth, best_score, iter_log>>
    /\ board' = undo_move(board)
    /\ LET f     == Top
           score == -ret.v
       IN  IF search_stopped(info)
           THEN Return(0) /\ UNCHANGED info
           ELSE IF score >= f.beta
           THEN /\ Return(f.beta)
                /\ info' = IF build.DEBUG
                           THEN [info EXCEPT !.fail_high = @ + 1,
                                             !.fail_high_first =
                                                 IF f.moves_searched = 1 THEN @ + 1 ELSE @]
                           ELSE info
           ELSE /\ Goto([f EXCEPT !.at = "loop", !.alpha = IF score > @ THEN score ELSE @])
                /\ UNCHANGED info

\* a stack entry as value-initialisation leaves it
StackZero == [killer |-> <<NULLMV, NULLMV>>, score |-> 0]

\* init_search, lines 244-247, on the stack s: MAX_DEPTH times, s->killer[0] =
\* s->killer[1] = NULLMV and s->score = 0, which is s[0] every time
init_search_stack(s) == [s EXCEPT ![0] = StackZero]

\* search, lines 345-355: the locals are set (the stack value-initialised) and
\* init_search runs, whose loop over the stack writes s[0] only
Search_Init ==
    /\ pc = "ab_entry"
    /\ ABFrame
    /\ board' = init_search_board(board)
    /\ pv_tb' = [i \in 0 .. MAX_DEPTH |-> IF i < MAX_DEPTH THEN pv_clear ELSE pv_tb[i]]
    /\ info' = info_clear(info)
    /\ stack' = init_search_stack([i \in 0 .. MAX_DEPTH |-> StackZero])
    /\ best_move' = NULLMV
    /\ best_score' = 0
    /\ depth' = 1
    /\ pc' = "iter"
    /\ UNCHANGED <<out, fault, frames, ret, iter_log>>

\* search, lines 365-372: the next iteration starts, or the loop is left
Search_IterStart ==
    /\ pc = "iter"
    /\ ABFrame
    /\ UNCHANGED <<board, info, out, fault, best_move, pv_tb, stack, depth, best_score,
                   iter_log>>
    /\ IF depth <= info.depth
       THEN /\ frames' = <<negamax_call(-oo, oo, depth)>>
            /\ ret' = NoRet
            /\ pc' = "search"
       ELSE pc' = "finish" /\ UNCHANGED <<frames, ret>>

\* pv_line::print(): the moves [0, size) of a row
pv_print(pv) == [i \in 1 .. pv.size |-> pv.moves[i - 1]]

\* print_search_info(s, d, sd, n, t, pv, board): the info line; s is kept beside what
\* is printed of it, the unit ("mate" or "cp") and the number v
print_search_info(s, pv) ==
    [kind |-> "info", move |-> pv.moves[0], s |-> s,
     unit |-> IF (IF s < 0 THEN -s ELSE s) >= oo - MAX_DEPTH THEN "mate" ELSE "cp",
     v    |-> IF (IF s < 0 THEN -s ELSE s) >= oo - MAX_DEPTH
              THEN cdiv(IF s > 0 THEN oo - s + 1 ELSE -oo - s + 1, 2)
              ELSE s,
     pv   |-> pv_print(pv)]

\* a search that takes the best move from the pv table before it looks at the stop
Search_IterEndEager ==
    /\ pc = "search" /\ frames = << >> /\ ret.has
    /\ ABFrame
    /\ UNCHANGED <<board, info, fault, pv_tb, frames>>
    /\ ret' = NoRet
    /\ best_score' = ret.v
    /\ stack' = [stack EXCEPT ![0].score = ret.v]
    /\ iter_log' = Append(iter_log, [depth |-> depth, stopped |-> search_stopped(info),
                                    pv |-> pv_tb[0].moves[0]])
    /\ best_move' = pv_tb[0].moves[0]
    /\ IF search_stopped(info)
       THEN pc' = "finish" /\ UNCHANGED <<out, depth>>
       ELSE /\ out' = Append(out, print_search_info(ret.v, pv_tb[0]))
            /\ depth' = depth + 1
            /\ pc' = "iter"

\* search, lines 372-390: negamax has returned to search
Search_IterEnd ==
    /\ pc = "search" /\ frames = << >> /\ ret.has
    /\ ABFrame
    /\ UNCHANGED <<board, info, fault, pv_tb, frames>>
    /\ ret' = NoRet
    /\ best_score' = ret.v
    /\ stack' = [stack EXCEPT ![0].score = ret.v]
    /\ iter_log' = Append(iter_log, [depth |-> depth, stopped |-> search_stopped(info),
                                    pv |-> pv_tb[0].moves[0]])
    /\ IF search_stopped(info)
       THEN pc' = "finish" /\ UNCHANGED <<best_move, out, depth>>
       ELSE /\ best_move' = pv_tb[0].moves[0]
            /\ out' = Append(out, print_search_info(ret.v, pv_tb[0]))
            /\ depth' = depth + 1
            /\ pc' = "iter"

\* search, lines 408-413: the best move is reported, the state set
Search_Finish ==
    /\ pc = "finish"
    /\ ABFrame
    /\ out' = Append(out, [kind |-> "bestmove", move |-> best_move])
    /\ info' = [info EXCEPT !.state = "STOPPED"]
    /\ pc' = "done"
    /\ UNCHANGED <<board, fault, best_move, abVars>>

-----------------------------------------------------------------------------
(* The specifications                                                      *)

\* history_h of the board a search is entered with (one entry per index)
HistIdx == {1, 2}

\* the ply counter a search can be entered with
EntryPlies == {0, 2}

ArenaIdle ==
    /\ m_size = 0
    /\ blocks = << >>
    /\ last_call = [op |-> "new", n |-> 0, before |-> 0, ret |-> NULLPTR, prev |-> -1]

EnginesIdle ==
    /\ game = "tree"
    /\ build = [DEBUG |-> FALSE, NDEBUG |-> FALSE]
    /\ board = [path |-> << >>, turn |-> WHITE, ply |-> 0, history_h |-> [i \in HistIdx |-> 0]]
    /\ entry_board = board
    /\ info = [nodes |-> 0, seldepth |-> 0, depth |-> 0, state |-> "IDLE", stop |-> FALSE,
               fail_high |-> 0, fail_high_first |-> 0]
    /\ out = << >>
    /\ pc = "idle"
    /\ fault = "none"
    /\ best_move = NULLMV

MCTSIdle ==
    /\ root_board = board
    /\ tree = << >>
    /\ node = NULLNODE
    /\ reward = 0
    /\ iter = 0
    /\ sim_made = 0
    /\ sim_a = NULLMV
    /\ torn = << >>

ABIdle ==
    /\ frames = << >>
    /\ ret = NoRet
    /\ pv_tb = [i \in 0 .. MAX_DEPTH |-> pv_clear]
    /\ stack = [i \in 0 .. MAX_DEPTH |-> [killer |-> <<NULLMV, NULLMV>>, score |-> 0]]
    /\ depth = 0
    /\ best_score = 0
    /\ iter_log = << >>

\* the arena after construction
InitArena == ArenaIdle /\ EnginesIdle /\ MCTSIdle /\ ABIdle

\* the cursor the last reset found, when no allocate was called since that reset
since_reset ==
    IF last_call.op = "reset" THEN last_call.before
    ELSE IF last_call.op = "has_space" THEN last_call.prev
    ELSE -1

ArenaAllocate(n) ==
    LET r == allocate(m_size, n)
    IN  /\ Len(blocks) < MaxAllocs
        /\ m_size' = r.size
        /\ blocks' = IF r.ret # NULLPTR THEN Append(blocks, <<r.ret - m_bytes, n>>) ELSE blocks
        /\ last_call' = [op |-> "allocate", n |-> n, before |-> m_size, ret |-> r.ret,
                         prev |-> since_reset]
        /\ UNCHANGED <<commonVars, mctsVars, abVars>>

ArenaReset ==
    /\ m_size' = reset
    /\ blocks' = << >>
    /\ last_call' = [op |-> "reset", n |-> 0, before |-> m_size, ret |-> NULLPTR, prev |-> -1]
    /\ UNCHANGED <<commonVars, mctsVars, abVars>>

ArenaHasSpace(n) ==
    /\ last_call' = [op |-> "has_space", n |-> n, before |-> m_size,
                     ret |-> IF has_space(m_size, n) THEN 1 ELSE 0, prev |-> since_reset]
    /\ UNCHANGED <<m_size, blocks, commonVars, mctsVars, abVars>>

NextArena ==
    \/ \E n \in Requests : ArenaAllocate(n)
    \/ \E n \in Requests : ArenaHasSpace(n)
    \/ ArenaReset

SpecArena == InitArena /\ [][NextArena]_vars

\* MCTS_Search is entered: any game, any build, a board whose ply counter the caller left
\* at any value, an info record in state SEARCHING with stale counters
InitMCTS ==
    /\ ArenaIdle
    /\ game \in Games
    /\ build \in Builds
    /\ \E p \in EntryPlies :
          board = [path |-> << >>, turn |-> WHITE, ply |-> p, history_h |-> [i \in HistIdx |-> 0]]
    /\ entry_board = board
    /\ info = [nodes |-> 5, seldepth |-> 3, depth |-> 1, state |-> "SEARCHING", stop |-> FALSE,
               fail_high |-> 0, fail_high_first |-> 0]
    /\ out = << >>
    /\ pc = "entry"
    /\ fault = "none"
    /\ best_move = NULLMV
    /\ MCTSIdle
    /\ ABIdle

NextMCTS ==
    \/ MCTS_Setup
    \/ MCTS_LoopTest
    \/ MCTS_Select
    \/ MCTS_Expand
    \/ MCTS_Simulate
    \/ MCTS_Backprop
    \/ MCTS_PrintInfo
    \/ MCTS_Restore
    \/ MCTS_Report
    \/ MCTS_Cleanup
    \/ MCTS_ArenaReset
    \/ MCTS_SetState
    \/ RequestStop

SpecMCTS == InitMCTS /\ [][NextMCTS]_vars

\* the search thread runs: every step of MCTS_Search that can be taken is taken
FairSpecMCTS ==
    SpecMCTS /\ WF_vars(MCTS_Setup \/ MCTS_LoopTest \/ MCTS_Select \/ MCTS_Expand
                          \/ MCTS_Simulate \/ MCTS_Backprop \/ MCTS_PrintInfo
                          \/ MCTS_Restore \/ MCTS_Report \/ MCTS_Cleanup
                          \/ MCTS_ArenaReset \/ MCTS_SetState)

\* the history tables a search can be entered with
HistTables == {[i \in HistIdx |-> 0], [i \in HistIdx |-> IF i = 1 THEN 40 ELSE -17]}

\* search is entered: any game, any build, a board with any ply counter and history
\* table, a depth limit, an info record in state SEARCHING with stale counters
InitAB ==
    /\ ArenaIdle
    /\ game \in Games
    /\ build \in Builds
    /\ \E p \in EntryPlies, h \in HistTables :
          board = [path |-> << >>, turn |-> WHITE, ply |-> p, history_h |-> h]
    /\ entry_board = board
    /\ \E d \in 1 .. MaxDepthLimit :
          info = [nodes |-> 5, seldepth |-> 3, depth |-> d, state |-> "SEARCHING",
                  stop |-> FALSE, fail_high |-> 0, fail_high_first |-> 0]
    /\ out = << >>
    /\ pc = "ab_entry"
    /\ fault = "none"
    /\ best_move = NULLMV
    /\ MCTSIdle
    /\ ABIdle

NextAB ==
    \/ Search_Init
    \/ Search_IterStart
    \/ NegamaxEntry
    \/ NegamaxNext
    \/ NegamaxChildReturned
    \/ QuiescenceEntry
    \/ QuiescenceNext
    \/ QuiescenceChildReturned
    \/ Search_IterEnd
    \/ Search_Finish
    \/ RequestStop

SpecAB == InitAB /\ [][NextAB]_vars

\* the search thread runs: every step of search that can be taken is taken
FairSpecAB ==
    SpecAB /\ WF_vars(Search_Init \/ Search_IterStart \/ NegamaxEntry \/ NegamaxNext
                        \/ NegamaxChildReturned \/ QuiescenceEntry \/ QuiescenceNext
                        \/ QuiescenceChildReturned \/ Search_IterEnd \/ Search_Finish)

\* what a stack entry can hold when init_search is called on a stack that was used
StackEntries == {StackZero, [killer |-> <<1, 2>>, score |-> 7],
                 [killer |-> <<NULLMV, 1>>, score |-> -3]}

\* init_search is about to be called on a board, an info record and a stack of any content
InitInitSearch ==
    /\ ArenaIdle
    /\ game = "tree"
    /\ build = [DEBUG |-> FALSE, NDEBUG |-> FALSE]
    /\ \E p \in EntryPlies, h \in HistTables :
          board = [path |-> << >>, turn |-> WHITE, ply |-> p, history_h |-> h]
    /\ entry_board = board
    /\ info = [nodes |-> 5, seldepth |-> 3, depth |-> 1, state |-> "SEARCHING",
               stop |-> FALSE, fail_high |-> 0, fail_high_first |-> 0]
    /\ out = << >>
    /\ pc = "init_search"
    /\ fault = "none"
    /\ best_move = NULLMV
    /\ MCTSIdle
    /\ frames = << >>
    /\ ret = NoRet
    /\ pv_tb = [i \in 0 .. MAX_DEPTH |-> pv_clear]
    /\ stack \in [0 .. MAX_DEPTH -> StackEntries]
    /\ depth = 0
    /\ best_score = 0
    /\ iter_log = << >>

\* init_search(board, info, s), lines 222-251, the whole call
InitSearchCall ==
    /\ pc = "init_search"
    /\ ABFrame
    /\ board' = init_search_board(board)
    /\ pv_tb' = [i \in 0 .. MAX_DEPTH |-> IF i < MAX_DEPTH THEN pv_clear ELSE pv_tb[i]]
    /\ info' = info_clear(info)
    /\ stack' = init_search_stack(stack)
    /\ pc' = "init_search_done"
    /\ UNCHANGED <<out, fault, best_move, frames, ret, depth, best_score, iter_log>>

NextInitSearch == InitSearchCall

SpecInitSearch == InitInitSearch /\ [][NextInitSearch]_vars

-----------------------------------------------------------------------------
(* The claims                                                              *)

\* s rounded up to the next multiple of max_align
RoundUp(s) == IF s % ALIGNMENT = 0 THEN s ELSE s + (ALIGNMENT - (s % ALIGNMENT))

Disjoint(b1, b2) == b1[1] + b1[2] <= b2[1] \/ b2[1] + b2[2] <= b1[1]

C11_ResetGivesFreshArena ==
    /\ last_call.op = "reset" => m_size = 0
    /\ (last_call.op = "allocate" /\ last_call.prev >= 0) =>
          /\ last_call.ret = allocate(0, last_call.n).ret
          /\ last_call.n <= m_capacity => last_call.ret = m_bytes

\* C11 witness: a non-empty block was handed out at offset 0 by the first allocate
\* after a reset that found the cursor deep in the buffer
C11_Witness ==
    /\ last_call.op = "allocate"
    /\ last_call.prev > ALIGNMENT
    /\ last_call.n > 0
    /\ last_call.ret = m_bytes
    /\ blocks = <<<<0, last_call.n>>>>

\* C10 (as claimed): in every reachable arena state and for every n, has_space(n)
\* true implies that allocate(n) called next returns a non-null address.
C10_HasSpaceImpliesAllocate ==
    \A n \in Requests : has_space(m_size, n) => allocate(m_size, n).ret # NULLPTR

\* the lines of kind k among the output
Lines(k) == {i \in 1 .. Len(out) : out[i].kind = k}

\* arena.has_space(sizeof(Node)) is false
NoSpaceForNode == ~has_space(m_size, NodeSize)

\* C12: when the arena has no space for a node, expand returns the node it was given and
\* changes nothing (tree, node, working position, info, cursor); simulate and backprop
\* then run on that node; the search does not abort, and it ends only when stopped.
C12_OutOfMemoryIsSoft ==
    /\ [][(pc = "expand" /\ NoSpaceForNode /\ pc' # pc) =>
             (pc' = "simulate" /\ UNCHANGED <<tree, node, board, info, m_size>>)]_vars
    /\ [][(pc = "simulate" /\ NoSpaceForNode /\ pc' # pc) =>
             (pc' = "backprop" /\ UNCHANGED node)]_vars
    /\ [][(pc = "backprop" /\ NoSpaceForNode /\ pc' # pc) =>
             (pc' = "print" /\ tree'[node].visits = tree[node].visits + 1)]_vars
    /\ [](NoSpaceForNode => pc # "crashed")
    /\ []((NoSpaceForNode /\ pc \in {"report", "cleanup"}) => search_stopped(info))

\* C12 witness: an iteration ended whose expand was given a node with untried moves
\* and an arena without space for another node
C12_Witness ==
    /\ pc = "restore"
    /\ NoSpaceForNode
    /\ node # NULLNODE
    /\ ~is_fully_expanded(tree, node)
    /\ tree[node].visits >= 1

\* the number of parent links from node n up to node a, or -1 if a is not n or an
\* ancestor of n
RECURSIVE StepsUp(_, _, _)
StepsUp(t, n, a) ==
    IF n = NULLNODE THEN -1
    ELSE IF n = a THEN 0
    ELSE LET d == StepsUp(t, t[n].parent, a) IN IF d < 0 THEN -1 ELSE d + 1

\* C13: one backprop(reward, n) adds a visit to n and to each of its ancestors and changes
\* their total_reward by -reward at n, +reward at its parent, and so on alternating;
\* every other node is unchanged.
C13_BackpropPath ==
    [][(pc = "backprop" /\ pc' = "print") =>
          /\ Len(tree') = Len(tree)
          /\ \A k \in 1 .. Len(tree) :
                LET d == StepsUp(tree, node, k)
                IN  IF d < 0 THEN tree'[k] = tree[k]
                    ELSE tree'[k] = [tree[k] EXCEPT
                                       !.visits = @ + 1,
                                       !.total_reward =
                                           @ + (IF d % 2 = 0 THEN -reward ELSE reward)]]_vars

\* C13 witness: a non-zero reward was propagated from a grandchild of the root, in a tree
\* that has a node off the path
C13_Witness ==
    /\ pc = "print"
    /\ reward # 0
    /\ node # NULLNODE
    /\ StepsUp(tree, node, root) = 2
    /\ \E k \in 1 .. Len(tree) : StepsUp(tree, node, k) < 0 /\ tree[k].visits > 0
    /\ tree[node].total_reward = -reward
    /\ tree[tree[node].parent].visits >= 2

\* the places of MCTS_Search outside the part of an iteration that runs from expand
\* to backprop
BetweenIterations == pc \in {"print", "restore", "loop", "select", "expand", "report", "cleanup"}

\* C14: at the end of every MCTS iteration every node of the tree has at least as many
\* visits as children.
C14_VisitsCoverChildren ==
    BetweenIterations => \A n \in 1 .. Len(tree) : tree[n].visits >= Len(tree[n].children)

\* C14 witness: after three iterations the root has two children and one of them has a
\* child of its own, created on its second visit
C14_Witness ==
    /\ pc = "loop"
    /\ iter >= 3
    /\ Len(tree[root].children) = 2
    /\ \E n \in 2 .. Len(tree) : tree[n].visits = 2 /\ Len(tree[n].children) = 1

\* the side to move in the position of node n
TurnAt(n) ==
    IF StepsUp(tree, n, root) % 2 = 0 THEN root_board.turn ELSE 1 - root_board.turn

\* the result of the playout that ended on the board, as the side c sees it: a loss or a
\* win if the playout ended without a legal move and a king in check, a draw if it
\* ended so without check, else the estimate from the static evaluation
PlayoutResultFor(c) ==
    IF sim_a = NULLMV
    THEN IF is_in_check(game, board, c) THEN -RSCALE
         ELSE IF is_in_check(game, board, 1 - c) THEN RSCALE
         ELSE 0
    ELSE LET forMover == 2 * winning_prob(evaluate(game, board)) - RSCALE
         IN  IF board.turn = c THEN forMover ELSE -forMover

\* C15: in every iteration, each node of the backprop path other than the root gets
\* added to its total_reward the result of the playout as seen by the side to move at
\* the node's parent; for the node the playout started from this is the negation of
\* the reward simulate returned.
C15_RewardFromParentsSide ==
    [][(pc = "backprop" /\ pc' = "print") =>
          /\ tree'[node].total_reward - tree[node].total_reward = -reward
          /\ \A k \in 2 .. Len(tree) :
                StepsUp(tree, node, k) >= 0 =>
                    tree'[k].total_reward - tree[k].total_reward =
                        PlayoutResultFor(TurnAt(tree[k].parent))]_vars

\* C15 witness: expand returned the selected node, a node below the root visited
\* before, and the playout from it gave a non-zero reward
C15_Witness ==
    /\ pc = "print"
    /\ reward # 0
    /\ node # NULLNODE /\ node # root
    /\ tree[node].visits >= 2
    /\ tree[node].children = << >>

\* the absolute value
Abs(x) == IF x < 0 THEN -x ELSE x

\* C16 (as claimed): every info line of search whose score s is a mate score, positive
\* or negative, prints a mate distance of magnitude (MATE - |s| + 1) / 2.
C16_MateDistance ==
    \A i \in Lines("info") :
        Abs(out[i].s) >= oo - MAX_DEPTH =>
            /\ out[i].unit = "mate"
            /\ Abs(out[i].v) = (oo - Abs(out[i].s) + 1) \div 2

\* a call made by search or by negamax (a call of negamax) has just returned
NegamaxReturned == ret.has /\ ret.called = "negamax"

\* C17 (as claimed): after negamax returns at ply p, for every p, pv[p].size is the number
\* of moves of the line found from ply p and pv[p][0 .. size) are the moves of that line.
C17_PvRowIsLine ==
    NegamaxReturned =>
        /\ pv_tb[ret.ply].size = Len(ret.line)
        /\ \A i \in 1 .. Len(ret.line) : pv_tb[ret.ply].moves[i - 1] = ret.line[i]

\* C17 (amended): after negamax returns at ply p, pv[p].size - p is the number of moves
\* of the line found from ply p (the last move that raised alpha without reaching beta
\* and the line of its call; empty if there is none) and pv[p][p .. size) are the moves
\* of that line in play order.
C17_PvRowIsLineFromPly ==
    NegamaxReturned =>
        /\ pv_tb[ret.ply].size = ret.ply + Len(ret.line)
        /\ \A i \in 1 .. Len(ret.line) :
              pv_tb[ret.ply].moves[ret.ply + i - 1] = ret.line[i]

\* C17 witness: negamax returned below the root with a line of two moves
C17_Witness ==
    /\ NegamaxReturned
    /\ ret.ply >= 1
    /\ Len(ret.line) >= 2
    /\ ~search_stopped(info)

\* playing the moves of `line` in order from the position at `path` is legal at every step
RECURSIVE LegalLine(_, _, _)
LegalLine(g, path, line) ==
    \/ line = << >>
    \/ /\ Head(line) \in LegalMoves(g, path)
       /\ LegalLine(g, Append(path, Head(line)), Tail(line))

\* C18: after every iteration of search that ends without a stop, on a root position with
\* a legal move, pv_tb[0] has size >= 1 and pv_tb[0][0 .. size), the line the info line
\* prints, can be played from the root, every move legal where it is played.
C18_PvIsLegal ==
    LegalMoves(game, entry_board.path) # {} =>
        \A i \in Lines("info") :
            /\ Len(out[i].pv) >= 1
            /\ out[i].move = out[i].pv[1]
            /\ LegalLine(game, entry_board.path, out[i].pv)

\* quiescence(alpha, beta, board, ...) when no stop is requested: the value returned
RECURSIVE quiescence_value(_, _, _, _)
RECURSIVE quiescence_moves(_, _, _, _, _)
quiescence_value(g, b, alpha, beta) ==
    LET score == evaluate(g, b)
    IN  IF b.ply >= MAX_DEPTH - 1 THEN score
        ELSE IF score >= beta THEN beta
        ELSE quiescence_moves(g, b, IF score > alpha THEN score ELSE alpha, beta,
                              ordered(generate_noisy(g, b)))

\* the move loop of quiescence over the moves not yet tried
quiescence_moves(g, b, alpha, beta, moves) ==
    IF moves = << >> THEN alpha
    ELSE LET mm == make_move(g, b, Head(moves))
         IN  IF ~mm.ok THEN quiescence_moves(g, b, alpha, beta, Tail(moves))
             ELSE LET score == -quiescence_value(g, mm.board, -beta, -alpha)
                  IN  IF score >= beta THEN beta
                      ELSE quiescence_moves(g, b, IF score > alpha THEN score ELSE alpha,
                                            beta, Tail(moves))

\* the position search works on: the board it is entered with, after init_search
RootBoard == init_search_board(entry_board)

\* the negated full-window quiescence score of the root position after the move m
ChildScore(m) == -quiescence_value(game, make_move(game, RootBoard, m).board, -oo, oo)

\* the largest element of a non-empty set of integers
MaxOf(S) == CHOOSE x \in S : \A y \in S : y <= x

\* C19: on a root position with a legal move and without a stop, negamax(-oo, +oo, 1)
\* returns the maximum, over the legal root moves m, of the negated full-window
\* quiescence score of the position after m. The first iteration of search is that
\* call, and its info line carries what it returned.
C19_DepthOneIsMaxOfQuiescence ==
    (Len(out) >= 1 /\ out[1].kind = "info" /\ LegalMoves(game, entry_board.path) # {}) =>
        out[1].s = MaxOf({ChildScore(m) : m \in LegalMoves(game, entry_board.path)})

\* C19 witness: the first iteration ended without a stop on a root with two legal moves
\* of which the one searched first scores higher, so that the second was searched with
\* the window (-oo, -alpha) and its quiescence failed high against the narrowed bound
C19_Witness ==
    /\ Len(out) >= 1 /\ out[1].kind = "info"
    /\ LegalMoves(game, entry_board.path) = {1, 2}
    /\ ChildScore(1) > ChildScore(2)
    /\ out[1].s = ChildScore(1)
    /\ out[1].pv = <<1>>

\* C18 witness: the third iteration ended without a stop and printed a line of three
\* moves that does not start with the root move searched first: pv_tb[0] was rewritten
\* over the line of that move
C18_Witness ==
    /\ Len(out) >= 3
    /\ out[3].kind = "info"
    /\ Len(out[3].pv) = 3
    /\ out[3].pv[1] # Head(ordered(generate_moves(game, entry_board)))

\* C1 (as claimed): when MCTS_Search returns, every field of the board, the ply
\* counter included, has the value it had on entry, whatever ply was on entry.
C1_BoardPreserved == pc = "done" => board = entry_board

\* C1 (amended): when MCTS_Search returns, every field of the board other than ply
\* has its value on entry and ply is 0.
C1_BoardPreservedButPly == pc = "done" => board = [entry_board EXCEPT !.ply = 0]

\* C1 witness: a search entered with ply # 0 returned after iterations that moved on the board
C1_Witness ==
    /\ pc = "done"
    /\ iter >= 2
    /\ sim_made > 0
    /\ entry_board.ply # 0
    /\ board.ply = 0

\* C2 (as claimed): a search whose stop condition holds ends by returning, with a
\* bestmove line written and info.state = STOPPED, whenever the stop came.
C2_StopEndsWithBestmove ==
    (search_stopped(info) /\ pc \in {"done", "crashed"}) =>
        (pc = "done" /\ info.state = "STOPPED" /\ Lines("bestmove") # {})

\* C3 (as claimed): on a root position without a legal move the search never fails, and
\* the bestmove line it ends with carries NULLMV.
C3_NoLegalRootMoveNeverFails ==
    LegalMoves(game, entry_board.path) = {} =>
        /\ pc # "crashed"
        /\ pc = "done" => \E i \in Lines("bestmove") : out[i].move = NULLMV

\* C4 (as claimed): when search returns, every field of the board has the value it had
\* on entry: the position, the side to move, the ply counter, every history entry.
C4_BoardPreserved ==
    pc = "done" =>
        /\ board.path = entry_board.path
        /\ board.turn = entry_board.turn
        /\ board.ply = entry_board.ply
        /\ \A i \in HistIdx : board.history_h[i] = entry_board.history_h[i]

\* q is h / 16 rounded towards zero
IsSixteenth(q, h) ==
    IF h >= 0 THEN 16 * q <= h /\ h < 16 * (q + 1)
    ELSE 16 * q >= h /\ h > 16 * (q - 1)

\* C4 (amended): when search returns, the position and the side to move have their
\* values on entry, ply is 0, and every history entry is a sixteenth of its value on
\* entry, rounded towards zero.
C4_BoardPreservedButPlyAndHistory ==
    pc = "done" =>
        /\ board.path = entry_board.path
        /\ board.turn = entry_board.turn
        /\ board.ply = 0
        /\ \A i \in HistIdx : IsSixteenth(board.history_h[i], entry_board.history_h[i])

\* C4 witness: a search entered with ply # 0 and history entries that do not survive
\* the scaling returned after two iterations that made and undid moves
C4_Witness ==
    /\ pc = "done"
    /\ Len(iter_log) >= 2
    /\ info.nodes > 2
    /\ entry_board.ply # 0
    /\ \E i \in HistIdx : entry_board.history_h[i] < 0 /\ board.history_h[i] = -1

\* the iterations of search that ended with search_stopped false
Completed == {i \in 1 .. Len(iter_log) : ~iter_log[i].stopped}

\* the greatest element of a non-empty set of numbers
Last(S) == CHOOSE i \in S : \A j \in S : j <= i

\* C5: the move of the bestmove line of search is pv_tb[0][0] as it stood at the end of
\* the last iteration that ended with search_stopped false, and NULLMV if there is none.
C5_BestmoveOfLastCompleted ==
    pc = "done" =>
        \A i \in Lines("bestmove") :
            out[i].move = IF Completed = {} THEN NULLMV ELSE iter_log[Last(Completed)].pv

\* C5 witness: search returned after an iteration that completed and a later one that
\* was stopped and had left in pv_tb[0][0] another move than the one reported
C5_Witness ==
    /\ pc = "done"
    /\ Completed # {}
    /\ \E i \in 1 .. Len(iter_log) :
          /\ iter_log[i].stopped
          /\ i > Last(Completed)
          /\ iter_log[i].pv # NULLMV
          /\ \E j \in Lines("bestmove") : out[j].move # iter_log[i].pv

\* C6 (as claimed): a finished search has written exactly one bestmove line, and that
\* line is the last line of its output.
C6_BestmoveOnceAndLast ==
    pc = "done" =>
        /\ Cardinality(Lines("bestmove")) = 1
        /\ out[Len(out)].kind = "bestmove"

\* C7 (as claimed): once the stop is requested the engine returns.
C7_StopLeadsToReturn == search_stopped(info) ~> (pc = "done")

\* C20: in every call of simulate the number of moves made on the board, the calls of
\* play_legal that returned a move, is at most ROLLOUT_BUDGET.
C20_RolloutWithinBudget == sim_made <= ROLLOUT_BUDGET

\* simulate has just returned: the board is the position its rollout ended in
SimulateReturned == pc = "backprop"

\* the rollout of the last simulate ended without a legal move, the side to move in check
RolloutEndedInMate ==
    /\ SimulateReturned
    /\ sim_a = NULLMV
    /\ is_in_check(game, board, board.turn)

\* C21 (as claimed): when the rollout ends without a legal move and the side to move at
\* that position is in check, simulate returns -1, whatever the length of the rollout.
C21_MatedReturnsMinusOne == RolloutEndedInMate => reward = -RSCALE

\* C21 (amended): when the rollout ends without a legal move and the side to move at
\* that position is in check, simulate returns -1 if that side is the side that was to
\* move when simulate was called (an even number of moves was made) and +1 if it is
\* the other side (an odd number of moves was made).
C21_MatedReturnsForStarter ==
    RolloutEndedInMate =>
        reward = (IF sim_made % 2 = 0 THEN -RSCALE ELSE RSCALE)

\* C21 witness: a rollout of an odd number of moves ended in the mate of the side that
\* did not start it
C21_Witness ==
    /\ RolloutEndedInMate
    /\ sim_made % 2 = 1
    /\ reward = RSCALE

\* the child kids[i] of n has the greatest UCB value among the children of n and is the
\* first child with that value
FirstOfGreatestUCB(t, n, exploration_mode, i) ==
    LET kids == t[n].children
        v(j) == UCB(t, kids[j], exploration_mode).v
    IN  /\ i \in 1 .. Len(kids)
        /\ \A j \in 1 .. Len(kids) : v(j) <= v(i)
        /\ \A j \in 1 .. i - 1 : v(j) < v(i)

\* the nodes best_child is asked about: nodes with a child, and in exploration mode
\* nodes visited before (see C23)
HasUCB(t, n, exploration_mode) ==
    /\ t[n].children # << >>
    /\ NULLNODE \notin Range(t[n].children)
    /\ exploration_mode => t[n].visits >= 1

\* C22: best_child returns a child whose UCB value is the greatest among the children of
\* the node, the first such child in the order of children; and the move of the bestmove
\* line is the action of the child of the root chosen so without the exploration term,
\* that is by total_reward / (visits + 1).
C22_BestChildFirstMax ==
    /\ \A n \in 1 .. Len(tree), exploration_mode \in BOOLEAN :
          HasUCB(tree, n, exploration_mode) =>
              LET bc == best_child(tree, n, exploration_mode)
              IN  /\ bc.fault = "none"
                  /\ \E i \in 1 .. Len(tree[n].children) :
                        /\ bc.best = tree[n].children[i]
                        /\ FirstOfGreatestUCB(tree, n, exploration_mode, i)
    /\ (pc = "cleanup" /\ HasUCB(tree, root, FALSE)) =>
          \E i \in 1 .. Len(tree[root].children) :
              /\ FirstOfGreatestUCB(tree, root, FALSE, i)
              /\ best_move = tree[tree[root].children[i]].a
              /\ \A k \in Lines("bestmove") : out[k].move = best_move
              /\ Lines("bestmove") # {}

\* C22 witness: bestmove was reported from a root with two children of the same
\* total_reward / (visits + 1), and it is the move of the first
C22_Witness ==
    /\ pc = "cleanup"
    /\ Len(tree[root].children) = 2
    /\ UCB(tree, tree[root].children[1], FALSE).v = UCB(tree, tree[root].children[2], FALSE).v
    /\ best_move = tree[tree[root].children[1]].a
    /\ Lines("bestmove") # {}

\* the nodes on which select calls best_child(true): fully expanded and not terminal
SelectDescends(t, n) == is_fully_expanded(t, n) /\ ~is_terminal(t, n)

\* C23: whenever selection computes the UCB of a child c with the exploration term, the
\* parent of c has visits >= 1, so that ln(visits(parent)) is defined; and best_child on a
\* fully expanded node that is not terminal returns one of its children, never none.
C23_SelectionIsDefined ==
    (pc = "select" /\ root # NULLNODE) =>
        /\ \A n \in 1 .. Len(tree) :
              SelectDescends(tree, n) =>
                  /\ tree[n].visits >= 1
                  /\ \A i \in 1 .. Len(tree[n].children) :
                        /\ tree[n].children[i] # NULLNODE
                        /\ ~UCB(tree, tree[n].children[i], TRUE).nan
                  /\ best_child(tree, n, TRUE).fault = "none"
                  /\ best_child(tree, n, TRUE).best \in Range(tree[n].children)
                  /\ best_child(tree, n, TRUE).best # NULLNODE
        /\ select(game, build, tree, root, board).fault = "none"

\* C23 witness: selection starts on a fully expanded root visited once, ln(1) = 0, and
\* descends to its child
C23_Witness ==
    /\ pc = "select"
    /\ root # NULLNODE
    /\ SelectDescends(tree, root)
    /\ tree[root].visits = 1
    /\ select(game, build, tree, root, board).node # root

\* the sequence p is the beginning of the sequence q
IsPrefix(p, q) == Len(p) <= Len(q) /\ SubSeq(q, 1, Len(p)) = p

\* C24: across the iterations, for every node, untried_moves only shrinks and children
\* only grows (and the node stays where it is, with its move and parent); a terminal
\* node, fully expanded without a child, gets no child and is changed by backprop only:
\* expand returns it, and leaves the tree and the working position as they are.
C24_NodesOnlyAdvance ==
    [][pc \notin {"entry", "cleanup"} =>
          /\ Len(tree') >= Len(tree)
          /\ \A n \in 1 .. Len(tree) :
                /\ tree'[n].untried_moves \subseteq tree[n].untried_moves
                /\ IsPrefix(tree[n].children, tree'[n].children)
                /\ tree'[n].a = tree[n].a /\ tree'[n].parent = tree[n].parent
                /\ is_fully_expanded(tree, n) => tree'[n].children = tree[n].children
                /\ is_terminal(tree, n) =>
                      /\ is_terminal(tree', n)
                      /\ pc # "backprop" => tree'[n] = tree[n]
          /\ (pc = "expand" /\ is_terminal(tree, node) /\ pc' # pc) =>
                (pc' = "simulate" /\ node' = node /\ tree' = tree /\ board' = board)]_vars

\* C24 witness: a node below the root that an earlier iteration left terminal was
\* selected again and expand has just returned it
C24_Witness ==
    /\ pc = "simulate"
    /\ node # NULLNODE /\ node # root
    /\ is_terminal(tree, node)
    /\ tree[node].visits >= 2

\* C25: every call of negamax and of quiescence made during a search, at every ply, is
\* entered with alpha < beta: the assertions at the entries never fail.
C25_WindowNeverEmpty ==
    /\ \A i \in 1 .. Len(frames) :
          frames[i].at = "entry" => frames[i].alpha < frames[i].beta
    /\ fault # "assert"

\* C25 witness: quiescence is entered two plies below the root with a window both bounds
\* of which were narrowed by the calls above it
C25_Witness ==
    /\ Len(frames) >= 3
    /\ Top.fn = "quiescence" /\ Top.at = "entry"
    /\ -oo < Top.alpha /\ Top.beta < oo
    /\ Top.alpha < Top.beta

\* a call of negamax with depth >= 1 has just returned: to search, or to a negamax
\* that had depth >= 2
NegamaxProperReturned ==
    /\ pc = "search" /\ ret.has
    /\ frames # << >> => (Top.fn = "negamax" /\ Top.at = "wait" /\ Top.depth >= 2)

\* the call that has just returned was on a position without a legal move, not a draw
\* by repetition or the fifty-move rule, and above the ply where negamax stops descending
ReturnedFromDeadEnd ==
    /\ NegamaxProperReturned
    /\ LegalMoves(game, board.path) = {}
    /\ ~(board.ply # 0 /\ (is_repetition(game, board) \/ fifty_move(game, board) >= 100))
    /\ board.ply < MAX_DEPTH - 1

\* C26: when negamax at ply p (depth >= 1, no draw) finds no legal move among the moves
\* generated, it returns -oo + p if the side to move is in check and 0 if it is not,
\* whatever its window.
C26_MateOrStalemateScore ==
    ReturnedFromDeadEnd =>
        /\ board.ply = Len(frames)
        /\ ret.v = (IF is_in_check(game, board, board.turn) THEN -oo + board.ply ELSE 0)

\* C26 witness (stalemate): negamax returned 0 from a stalemate two plies below the root,
\* called with a window (alpha, +oo) that does not hold 0
C26_Witness ==
    /\ ReturnedFromDeadEnd
    /\ Len(frames) = 2
    /\ ~is_in_check(game, board, board.turn)
    /\ ret.v = 0
    /\ -Top.beta >= 0

\* C27: after init_search(board, info, stack), for every ply i in 0 .. MAX_DEPTH - 1 both
\* killers of stack[i] are NULLMV and stack[i].score is 0, whatever the entries held
\* before the call.
C27_StackCleared ==
    pc = "init_search_done" =>
        \A i \in 0 .. MAX_DEPTH - 1 :
            stack[i].killer = <<NULLMV, NULLMV>> /\ stack[i].score = 0

\* the call on the child has returned to a negamax that is not stopped, with a score
\* at or above beta for the move it made, and the move is quiet: not one of the
\* captures and promotions of the position it was made in
QuietCutoffPending ==
    /\ pc = "search" /\ ret.has /\ frames # << >>
    /\ Top.fn = "negamax" /\ Top.at = "wait"
    /\ ~search_stopped(info)
    /\ -ret.v > Top.bestscore /\ -ret.v >= Top.beta
    /\ Top.move \notin Range(generate_noisy(game, undo_move(board)))

\* C28: when a quiet move causes a beta cutoff in negamax at ply p, the move is recorded
\* as a killer of stack[p]: after the cutoff it is one of the two killers of that entry.
C28_CutoffRecordsKiller ==
    [][(QuietCutoffPending /\ frames' = Callers) =>
           Top.move \in Range(stack'[board.ply - 1].killer)]_vars

\* the place of node n in the order of the destructor runs (0: its destructor did not run)
TornAt(q, n) == IF \E i \in 1 .. Len(q) : q[i] = n THEN CHOOSE i \in 1 .. Len(q) : q[i] = n ELSE 0

\* C29: after the loop is left and bestmove is written, the destructor of every node
\* placed in the arena during the search runs exactly once, the root first and every
\* node from the destructor of its parent, all before the arena is reset; then the arena
\* is reset, size() = 0, and only after that info.state becomes STOPPED.
C29_TeardownThenResetThenStopped ==
    /\ [][(pc = "cleanup" /\ pc' = "arena_reset") =>
             /\ Lines("bestmove") # {}
             /\ Len(torn') = Len(tree)
             /\ \A n \in 1 .. Len(tree) :
                   /\ Cardinality({i \in 1 .. Len(torn') : torn'[i] = n}) = 1
                   /\ IF n = root THEN torn'[1] = n
                      ELSE TornAt(torn', tree[n].parent) < TornAt(torn', n)
             /\ m_size' = m_size /\ m_size >= Len(tree) * NodeSize
             /\ info'.state = "SEARCHING"]_vars
    /\ [](pc \in {"entry", "loop", "select", "expand", "simulate", "backprop", "print",
                   "restore", "report", "cleanup"} => torn = << >>)
    /\ [](pc = "arena_reset" => (torn # << >> /\ m_size > 0 /\ info.state = "SEARCHING"))
    /\ [](pc = "set_state" => (torn # << >> /\ m_size = 0 /\ info.state = "SEARCHING"))
    /\ [](pc = "done" => (torn # << >> /\ m_size = 0 /\ info.state = "STOPPED"))

\* C29 witness: MCTS_Search has returned after the teardown of a tree of four nodes in
\* which the node allocated last hangs below the first child of the root: it was
\* destroyed before the second child
C29_Witness ==
    /\ pc = "done"
    /\ torn = <<1, 2, 4, 3>>
    /\ m_size = 0
    /\ info.state = "STOPPED"

\* the moves the calls in progress have made and not yet taken back, outermost first:
\* one per call that waits for, or has just got back, the result of a call it made
CallPath ==
    LET k == IF frames # << >> /\ Top.at = "wait" THEN Len(frames) ELSE Len(frames) - 1
    IN  [i \in 1 .. (IF k < 0 THEN 0 ELSE k) |-> frames[i].move]

\* the board after the moves of `line` are made one after the other from b
RECURSIVE PlayLine(_, _, _)
PlayLine(g, b, line) ==
    IF line = << >> THEN b
    ELSE PlayLine(g, make_move(g, b, Head(line)).board, Tail(line))

\* C30: every call of negamax and of quiescence returns with the board (position, side to
\* move, ply) it was entered with, on every return path, the one taken on a stop
\* included: at every moment of the search the board is the root position after the
\* moves of the calls in progress, each made once and not yet taken back, so that a
\* call that returns leaves the board where its caller put it, and the outermost call
\* leaves the root position.
C30_MakeUndoBalanced ==
    /\ pc = "search" => board = PlayLine(game, RootBoard, CallPath)
    /\ (pc = "search" /\ ret.has) =>
          /\ board.ply = Len(frames)
          /\ board.ply = ret.ply
          /\ board.turn = (IF Len(frames) % 2 = 0 THEN RootBoard.turn ELSE 1 - RootBoard.turn)
    /\ pc \in {"iter", "finish", "done"} => board = RootBoard

\* C30 witness: with the stop requested, a call two plies below the root has returned
\* to a caller that had already searched a move, and the board is the position the call
\* was entered with
C30_Witness ==
    /\ pc = "search" /\ ret.has
    /\ search_stopped(info)
    /\ Len(frames) = 2
    /\ Top.at = "wait" /\ Top.moves_searched >= 1
    /\ board = PlayLine(game, RootBoard, <<frames[1].move, frames[2].move>>)

\* the info lines of MCTS_Search whose score was computed from a child of the root
ScoredLines == {i \in Lines("info") : out[i].from # NULLNODE}

\* C31: every value simulate returns lies in [-1, +1]; hence at all times every node has
\* |total_reward| <= visits, its exploitation mean total_reward / (visits + 1) lies
\* strictly between -1 and +1, and the probability (q + 1) / 2 handed to
\* centipawn_from_prob for an info line lies strictly between 0 and 1.
C31_RewardsStayInRange ==
    /\ -RSCALE <= reward /\ reward <= RSCALE
    /\ \A n \in 1 .. Len(tree) :
          /\ -(RSCALE * tree[n].visits) <= tree[n].total_reward
          /\ tree[n].total_reward <= RSCALE * tree[n].visits
          /\ -MICRO < UCB(tree, n, FALSE).v /\ UCB(tree, n, FALSE).v < MICRO
          /\ 0 < prob_from_ucb(tree, n).num
          /\ prob_from_ucb(tree, n).num < prob_from_ucb(tree, n).den
    /\ \A i \in ScoredLines : 0 < out[i].p.num /\ out[i].p.num < out[i].p.den

\* C31 witness: an info line was written for a child of the root that has lost every one
\* of its two or more playouts, total_reward = -visits: its probability is 1 / (2 (visits + 1))
C31_Witness ==
    /\ ScoredLines # {}
    /\ \E i \in ScoredLines :
          /\ out[i].from <= Len(tree)
          /\ tree[out[i].from].visits >= 2
          /\ out[i].p.num * 2 * (tree[out[i].from].visits + 1) = out[i].p.den
          /\ tree[out[i].from].total_reward = -(RSCALE * tree[out[i].from].visits)

\* the ply of the call frames[i]: the number of calls above it
PlyOf(i) == i - 1

\* C32: during search, board.ply is at most MAX_DEPTH - 1 in every frame of negamax and
\* quiescence, and no move is made from a frame at ply >= MAX_DEPTH - 1; so every access
\* to pv_tb[ply], pv_tb[ply + 1] and stack[ply], and every entry the copy of the PV
\* writes, lies inside the arrays: pv_tb has MAX_DEPTH + 1 rows of MAX_DEPTH moves.
C32_PlyAndPvInBounds ==
    /\ fault # "oob"
    /\ pc = "search" =>
          /\ board.ply >= 0 /\ board.ply <= MAX_DEPTH - 1
          /\ board.ply + 1 \in DOMAIN pv_tb /\ board.ply \in DOMAIN stack
          /\ \A i \in 1 .. Len(frames) :
                /\ PlyOf(i) <= MAX_DEPTH - 1
                /\ frames[i].at = "wait" => PlyOf(i) < MAX_DEPTH - 1
          /\ \A r \in DOMAIN pv_tb :
                /\ DOMAIN pv_tb[r].moves = 0 .. MAX_DEPTH - 1
                /\ pv_tb[r].size <= MAX_DEPTH - 1
                /\ pv_tb[r].moves[MAX_DEPTH - 1] = NULLMV

\* a search of MAX_DEPTH plies has cut a negamax call at ply MAX_DEPTH - 1 and copied a
\* line of MAX_DEPTH - 1 moves, with the null move behind it, down to the root's row
C32_Witness ==
    /\ pc = "search" /\ fault = "none" /\ depth = MAX_DEPTH
    /\ info.depth >= MAX_DEPTH
    /\ pv_tb[0].size = MAX_DEPTH - 1
    /\ \A i \in 0 .. MAX_DEPTH - 2 : pv_tb[0].moves[i] # NULLMV
    /\ pv_tb[0].moves[MAX_DEPTH - 1] = NULLMV

====
